---- MODULE Spec2Model ----
(***************************************************************************)
(* Model of quantum_api: the token-bucket RateLimiter and the endpoint     *)
(* decorator's wrapper (src/quantum_api/endpoint.py) together with the     *)
(* APIError type (src/quantum_api/response.py).                            *)
(*                                                                         *)
(* Time and tokens are kept exact.  The monotonic clock is read in ticks;  *)
(* one minute is TicksPerMinute ticks.  The float `tokens` is stored in    *)
(* units of 1/TicksPerMinute token, so a bucket of rpm requests per minute *)
(* gains exactly rpm units per tick:                                       *)
(*   (rpm/60 tokens/s) * (60/TicksPerMinute s/tick)                        *)
(*                     * (TicksPerMinute units/token) = rpm units/tick.    *)
(***************************************************************************)
EXTENDS Integers, Sequences, FiniteSets, TLC

\* ---------------------------------------------------------------- bounds
TicksPerMinute == 4
MaxTime == 5
MaxRate == 2
MaxAcquires == 4
MaxCalls == 3
\* longest payload handed to quantum_encrypt
MaxPayload == 2

Threads == {1, 2}
\* two registrations made with @endpoint(...)
Endpoints == {1, 2}

VARIABLES
    \* endpoint(...) registration, fixed at decoration time
    rate_limit, auth_required, required_roles, request_schema, response_schema,
    \* RateLimiter fields and the monotonic clock
    tokens, last_update, clock,
    \* every acquire() made on the bucket so far: [at, ok]
    acquired,
    \* the wrapper's current call
    pc, calls, request, user, pending, result, trace, log,
    \* threads running acquire() statement by statement
    t_pc, t_now, t_elapsed, t_val, t_ret,
    \* one RateLimiter per registration: its rate, fields and acquire() history
    e_rate, e_tokens, e_last_update, e_acquired,
    \* one use of quantum_encrypt / quantum_decrypt: the payload and key given
    \* to quantum_encrypt, the envelope as it reaches quantum_decrypt, what
    \* happened to it on the way, the key given to quantum_decrypt, its outcome
    c_pc, c_data, c_key, c_envelope, c_tampered, c_dkey, c_result

config == <<rate_limit, auth_required, required_roles, request_schema, response_schema>>
bucket == <<tokens, last_update>>
call == <<pc, calls, request, user, pending, result, trace, log>>
threads == <<t_pc, t_now, t_elapsed, t_val, t_ret>>
registry == <<e_rate, e_tokens, e_last_update, e_acquired>>
crypto == <<c_pc, c_data, c_key, c_envelope, c_tampered, c_dkey, c_result>>
vars == <<config, bucket, clock, acquired, call, threads, registry, crypto>>

Min(a, b) == IF a <= b THEN a ELSE b

\* ------------------------------------------------------------ RateLimiter
\* one whole token, in stored units
OneToken == TicksPerMinute

\* self.tokens_per_second = requests_per_minute / 60, in units per tick
tokens_per_secondDouble(requests_per_minute) == 2 * requests_per_minute
tokens_per_second(requests_per_minute) == requests_per_minute

\* self.max_tokens = requests_per_minute
max_tokens(requests_per_minute) == requests_per_minute * OneToken

\* min(self.tokens + elapsed * self.tokens_per_second, self.max_tokens)
RefillNoClamp(tok, elapsed, rpm) == tok + elapsed * tokens_per_second(rpm)
Refill(tok, elapsed, rpm) ==
    Min(tok + elapsed * tokens_per_second(rpm), max_tokens(rpm))

\* if self.tokens >= 1
HasTokenAny(tok) == tok > 0
HasToken(tok) == tok >= OneToken

\* RateLimiter.acquire run without interruption
acquireKeepsStampOnReject(tok, last, now, rpm) ==
    LET elapsed == now - last
        filled == Refill(tok, elapsed, rpm)
    IN  IF HasToken(filled)
        THEN [tokens |-> filled - OneToken, last_update |-> now, ok |-> TRUE]
        ELSE [tokens |-> filled, last_update |-> last, ok |-> FALSE]
acquireNoDecrement(tok, last, now, rpm) ==
    LET elapsed == now - last
        filled == Refill(tok, elapsed, rpm)
    IN  [tokens |-> filled, last_update |-> now, ok |-> HasToken(filled)]
acquire(tok, last, now, rpm) ==
    LET elapsed == now - last
        filled == Refill(tok, elapsed, rpm)
    IN  IF HasToken(filled)
        THEN [tokens |-> filled - OneToken, last_update |-> now, ok |-> TRUE]
        ELSE [tokens |-> filled, last_update |-> now, ok |-> FALSE]

\* ------------------------------------------------------------- the values
NoRequest == [present |-> FALSE, method |-> "None"]
Requests == {NoRequest} \cup {[present |-> TRUE, method |-> m] : m \in {"GET", "POST"}}
NoUser == [id |-> "None", active |-> FALSE, roles |-> {}]
Users == {[id |-> "u1", active |-> a, roles |-> rs] : a \in BOOLEAN, rs \in {{"user"}, {"admin"}}}
\* the Authorization header, split at the length of "Bearer "
Headers == {[scheme |-> "", credentials |-> ""],
            [scheme |-> "Basic x", credentials |-> "yz"],
            [scheme |-> "Bearer ", credentials |-> "jwt"]}

\* what a call produced: nothing yet, a returned value, an APIError or another
\* exception.  message is str(e) of a plain exception, cause the message of
\* the exception an APIError was raised from, raised_at the source line.
NoResult == [kind |-> "none", status_code |-> 0, detail |-> "", error_code |-> "",
             error_id |-> 0, message |-> "", value |-> "", cause |-> "", raised_at |-> 0]
Return(v) == [NoResult EXCEPT !.kind = "return", !.value = v]
Exception(msg, line) == [NoResult EXCEPT !.kind = "Exception", !.message = msg, !.raised_at = line]

\* f"ERR_{status_code}"
ERR(status_code) ==
    CASE status_code = 401 -> "ERR_401"
      [] status_code = 403 -> "ERR_403"
      [] status_code = 404 -> "ERR_404"
      [] status_code = 422 -> "ERR_422"
      [] status_code = 429 -> "ERR_429"
      [] status_code = 500 -> "ERR_500"
      [] OTHER -> "ERR_"

\* APIError.__init__; uuid is the str(uuid4()) drawn for this error
APIError(status_code, detail, error_code, uuid, line) ==
    [NoResult EXCEPT !.kind = "APIError", !.status_code = status_code, !.detail = detail,
                     !.error_code = IF error_code = "None" THEN ERR(status_code) ELSE error_code,
                     !.error_id = uuid, !.raised_at = line]

\* APIError.to_dict()["error"], the timestamp left out
to_dict(e) == [id |-> e.error_id, code |-> e.error_code, status |-> e.status_code,
               detail |-> e.detail]

\* response.py helpers a handler may raise
not_found(uuid) == APIError(404, "Resource not found", "NOT_FOUND", uuid, 87)
forbidden(uuid) == APIError(403, "Permission denied", "FORBIDDEN", uuid, 87)

\* ------------------------------------------------------------------ Init
Init ==
    /\ rate_limit \in 1..MaxRate
    /\ auth_required \in BOOLEAN
    /\ required_roles \in {{}, {"admin"}}
    /\ request_schema \in BOOLEAN
    /\ response_schema \in BOOLEAN
    /\ clock = 0
    /\ tokens = max_tokens(rate_limit)
    /\ last_update = 0
    /\ acquired = <<>>
    /\ pc = "idle"
    /\ calls = 0
    /\ request = NoRequest
    /\ user = NoUser
    /\ pending = NoResult
    /\ result = NoResult
    /\ trace = <<>>
    /\ log = <<>>
    /\ t_pc = [t \in Threads |-> "start"]
    /\ t_now = [t \in Threads |-> 0]
    /\ t_elapsed = [t \in Threads |-> 0]
    /\ t_val = [t \in Threads |-> 0]
    /\ t_ret = [t \in Threads |-> FALSE]
    /\ e_rate = [e \in Endpoints |-> rate_limit]
    /\ e_tokens = [e \in Endpoints |-> max_tokens(rate_limit)]
    /\ e_last_update = [e \in Endpoints |-> 0]
    /\ e_acquired = [e \in Endpoints |-> <<>>]
    /\ c_pc = "idle"
    /\ c_data = [type |-> "bytes", data |-> <<>>]
    /\ c_key = <<>>
    /\ c_envelope = [type |-> "str", data |-> <<>>]
    /\ c_tampered = "intact"
    /\ c_dkey = <<>>
    /\ c_result = [kind |-> "none"]

\* time.monotonic() moves forward
Tick ==
    /\ clock < MaxTime
    /\ clock' = clock + 1
    /\ UNCHANGED <<config, registry, crypto, bucket, acquired, call, threads>>

\* ------------------------------------------- the limiter used on its own
LimiterInit ==
    /\ Init
    /\ auth_required = FALSE
    /\ required_roles = {}
    /\ request_schema = FALSE
    /\ response_schema = FALSE

Acquire ==
    /\ Len(acquired) < MaxAcquires
    /\ LET r == acquire(tokens, last_update, clock, rate_limit)
       IN  /\ tokens' = r.tokens
           /\ last_update' = r.last_update
           /\ acquired' = Append(acquired, [at |-> clock, ok |-> r.ok])
    /\ UNCHANGED <<config, registry, crypto, clock, call, threads>>

LimiterNext == Tick \/ Acquire
LimiterSpec == LimiterInit /\ [][LimiterNext]_vars

\* C3: after every acquire() of a sequential run, whatever time elapsed
\* between the calls, 0 <= tokens <= capacity.
C3_TokensWithinCapacity ==
    /\ 0 <= tokens
    /\ tokens <= max_tokens(rate_limit)

\* a call a full minute after an admitted one: the refill had to be clamped,
\* and a rejected call exists as well
C3_Witness ==
    /\ \E i \in 1..Len(acquired) : ~acquired[i].ok
    /\ \E i \in 1..Len(acquired) : i > 1 /\ acquired[i].at - acquired[i-1].at >= TicksPerMinute
                                     /\ acquired[i-1].ok

\* --------------------------------------------------- endpoint(...).wrapper
route == "/secure_ai"

\* if not request
ContextNeverMissing(req) == FALSE
ContextMissing(req) == ~req.present

\* if auth_required
AuthGateAlways == TRUE
AuthGate == auth_required

\* auth_header.startswith("Bearer ")
AnyScheme(h) == TRUE
IsBearer(h) == h.scheme = "Bearer "

\* not user or not user.active
InvalidCredentialsIgnoresActive(u) == u = NoUser
InvalidCredentials(u) == u = NoUser \/ ~u.active

\* endpoint(...) has no parameter by which a registration could ask for, or
\* waive, a second factor
mfa_required == FALSE

\* not require_mfa(user)
MfaNeverRejects(out) == FALSE
MfaRejects(out) == out = "False"

\* required_roles and not set(required_roles).intersection(user.roles)
NeverInsufficient(required, roles) == FALSE
InsufficientPermissions(required, roles) ==
    required # {} /\ required \cap roles = {}

\* user.id if user else None
user_id(u) == IF u # NoUser THEN u.id ELSE "None"

\* the record handed to log_request
LogRecord(success, status_code, error) ==
    [success |-> success, endpoint |-> route, method |-> request.method,
     status_code |-> status_code, error |-> error, user_id |-> user_id(user)]

Did(op, out) == Append(trace, [op |-> op, out |-> out])
Str(b) == IF b THEN "True" ELSE "False"

\* an exception that leaves the wrapper: the call is over
Raise(e) ==
    /\ result' = e
    /\ pc' = "idle"

\* lines 46-50: a call starts; without a request it fails at once
Call ==
    /\ pc = "idle"
    /\ calls < MaxCalls
    /\ \E req \in Requests :
         /\ request' = req
         /\ IF ContextMissing(req)
            THEN Raise(APIError(500, "Request context missing", "None", calls + 1, 50))
            ELSE pc' = "limit" /\ result' = NoResult
    /\ calls' = calls + 1
    /\ user' = NoUser
    /\ pending' = NoResult
    /\ trace' = <<>>
    /\ log' = <<>>
    /\ UNCHANGED <<config, registry, crypto, bucket, clock, acquired, threads>>

\* lines 52-54
RateLimit ==
    /\ pc = "limit"
    /\ LET r == acquire(tokens, last_update, clock, rate_limit)
       IN  /\ tokens' = r.tokens
           /\ last_update' = r.last_update
           /\ acquired' = Append(acquired, [at |-> clock, ok |-> r.ok])
           /\ trace' = Did("acquire", Str(r.ok))
           /\ IF ~r.ok
              THEN Raise(APIError(429, "Too many requests", "None", calls, 54))
              ELSE pc' = "auth" /\ result' = result
    /\ UNCHANGED <<config, registry, crypto, clock, calls, request, user, pending, log, threads>>

\* lines 57-61
Extract ==
    /\ pc = "auth"
    /\ IF ~AuthGate
       THEN pc' = "validate" /\ UNCHANGED <<result, trace>>
       ELSE \E auth_header \in Headers :
              /\ trace' = Did("headers.get", auth_header.scheme)
              /\ IF ~IsBearer(auth_header)
                 THEN Raise(APIError(401, "Invalid auth scheme", "None", calls, 61))
                 ELSE pc' = "resolve" /\ result' = result
    /\ UNCHANGED <<config, registry, crypto, bucket, clock, acquired, calls, request, user, pending, log, threads>>

\* lines 63-65: validate_jwt returns a user or None, or fails
Resolve ==
    /\ pc = "resolve"
    /\ \/ /\ trace' = Did("validate_jwt", "raise")
          /\ Raise(Exception("validate_jwt failed", 63))
          /\ user' = user
       \/ \E u \in Users \cup {NoUser} :
             /\ trace' = Did("validate_jwt", u.id)
             /\ user' = u
             /\ IF InvalidCredentials(u)
                THEN Raise(APIError(401, "Invalid credentials", "None", calls, 65))
                ELSE pc' = "mfa" /\ result' = result
    /\ UNCHANGED <<config, registry, crypto, bucket, clock, acquired, calls, request, pending, log, threads>>

\* lines 67-68: require_mfa returns a truth value, or fails
Mfa ==
    /\ pc = "mfa"
    /\ \E out \in {"True", "False", "raise"} :
         /\ trace' = Did("require_mfa", out)
         /\ CASE out = "raise" -> Raise(Exception("require_mfa failed", 67))
              [] out # "raise" /\ MfaRejects(out) ->
                    Raise(APIError(403, "MFA required", "None", calls, 68))
              [] OTHER -> pc' = "roles" /\ result' = result
    /\ UNCHANGED <<config, registry, crypto, bucket, clock, acquired, calls, request, user, pending, log, threads>>

\* lines 70-71
Authorize ==
    /\ pc = "roles"
    /\ IF InsufficientPermissions(required_roles, user.roles)
       THEN Raise(APIError(403, "Insufficient permissions", "None", calls, 71))
       ELSE pc' = "validate" /\ result' = result
    /\ UNCHANGED <<config, registry, crypto, bucket, clock, acquired, calls, request, user, pending, trace, log, threads>>

\* request.json() for a body-carrying method, request.query_params otherwise
PayloadSource(req) == IF req.method \in {"POST", "PUT", "PATCH"} THEN "json" ELSE "query_params"

\* lines 74-83: only pydantic's ValidationError is caught here
Validate ==
    /\ pc = "validate"
    /\ IF ~request_schema
       THEN pc' = "func" /\ UNCHANGED <<result, trace>>
       ELSE \E out \in {"ok", "ValidationError", "raise"} :
              /\ trace' = Did(PayloadSource(request), out)
              /\ CASE out = "raise" -> Raise(Exception("payload unreadable", 78))
                   [] out = "ValidationError" -> Raise(APIError(422, "e.errors()", "None", calls, 83))
                   [] OTHER -> pc' = "func" /\ result' = result
    /\ UNCHANGED <<config, registry, crypto, bucket, clock, acquired, calls, request, user, pending, log, threads>>

\* what func may do
HandlerOutcomes == {"response", "other", "APIError", "Exception"}
\* response_schema and not isinstance(response, response_schema)
ResponseInvalid(out) == response_schema /\ out = "other"

\* lines 86-91: the handler runs inside the try block
Func ==
    /\ pc = "func"
    /\ \E out \in HandlerOutcomes :
         /\ trace' = Did("func", out)
         /\ CASE out = "APIError" ->
                    /\ \E e \in {not_found(calls), forbidden(calls)} : pending' = e
                    /\ pc' = "except_api"
              [] out = "Exception" ->
                    /\ pending' = Exception("boom", 87)
                    /\ pc' = "except_exc"
              [] OTHER ->
                    IF ResponseInvalid(out)
                    THEN /\ pending' = APIError(500, "Response validation failed", "None", calls, 91)
                         /\ pc' = "except_api"
                    ELSE /\ pending' = Return(out)
                         /\ pc' = "log_ok"
    /\ UNCHANGED <<config, registry, crypto, bucket, clock, acquired, calls, request, user, result, log, threads>>

\* lines 93-101: log_request inside the try block; if it raises, the
\* except Exception clause of the same try catches it
LogSuccess ==
    /\ pc = "log_ok"
    /\ \E sink \in {"ok", "raise"} :
         /\ trace' = Did("log_request", sink)
         /\ IF sink = "ok"
            THEN /\ log' = Append(log, LogRecord(TRUE, 200, "None"))
                 /\ Raise(pending)
                 /\ pending' = pending
            ELSE /\ pending' = Exception("sink unavailable", 94)
                 /\ pc' = "except_exc"
                 /\ UNCHANGED <<log, result>>
    /\ UNCHANGED <<config, registry, crypto, bucket, clock, acquired, calls, request, user, threads>>

\* lines 103-112: except APIError as e: log, then re-raise e
ExceptAPIError ==
    /\ pc = "except_api"
    /\ \E sink \in {"ok", "raise"} :
         /\ trace' = Did("log_request", sink)
         /\ IF sink = "ok"
            THEN /\ log' = Append(log, LogRecord(FALSE, pending.status_code, pending.detail))
                 /\ Raise(pending)
            ELSE /\ Raise(Exception("sink unavailable", 104))
                 /\ log' = log
    /\ UNCHANGED <<config, registry, crypto, bucket, clock, acquired, calls, request, user, pending, threads>>

\* lines 113-122: except Exception as e: log str(e), raise the generic error
InternalServerError(e, uuid) ==
    [APIError(500, "Internal server error", "None", uuid, 122) EXCEPT !.cause = e.message]

ExceptException ==
    /\ pc = "except_exc"
    /\ \E sink \in {"ok", "raise"} :
         /\ trace' = Did("log_request", sink)
         /\ IF sink = "ok"
            THEN /\ log' = Append(log, LogRecord(FALSE, 500, pending.message))
                 /\ Raise(InternalServerError(pending, calls))
            ELSE /\ Raise(Exception("sink unavailable", 114))
                 /\ log' = log
    /\ UNCHANGED <<config, registry, crypto, bucket, clock, acquired, calls, request, user, pending, threads>>

Next ==
    \/ Tick
    \/ Call
    \/ RateLimit
    \/ Extract
    \/ Resolve
    \/ Mfa
    \/ Authorize
    \/ Validate
    \/ Func
    \/ LogSuccess
    \/ ExceptAPIError
    \/ ExceptException

Spec == Init /\ [][Next]_vars

\* ------------------------------ acquire() run by threads, line by line
\* Nothing in RateLimiter holds a lock, so another thread may run between
\* any two reads or writes of self.tokens and self.last_update.
ThreadInit == LimiterInit

\* line 19: now = time.monotonic()
ReadClock(t) ==
    /\ t_pc[t] = "start"
    /\ t_now' = [t_now EXCEPT ![t] = clock]
    /\ t_pc' = [t_pc EXCEPT ![t] = "l20"]
    /\ UNCHANGED <<config, registry, crypto, bucket, clock, acquired, call, t_elapsed, t_val, t_ret>>

\* line 20: elapsed = now - self.last_update
ReadLastUpdate(t) ==
    /\ t_pc[t] = "l20"
    /\ t_elapsed' = [t_elapsed EXCEPT ![t] = t_now[t] - last_update]
    /\ t_pc' = [t_pc EXCEPT ![t] = "l21r"]
    /\ UNCHANGED <<config, registry, crypto, bucket, clock, acquired, call, t_now, t_val, t_ret>>

\* line 21, right-hand side: self.tokens is read
ReadTokens(t) ==
    /\ t_pc[t] = "l21r"
    /\ t_val' = [t_val EXCEPT ![t] = tokens]
    /\ t_pc' = [t_pc EXCEPT ![t] = "l21w"]
    /\ UNCHANGED <<config, registry, crypto, bucket, clock, acquired, call, t_now, t_elapsed, t_ret>>

\* line 21, assignment: self.tokens = min(...)
WriteRefill(t) ==
    /\ t_pc[t] = "l21w"
    /\ tokens' = Refill(t_val[t], t_elapsed[t], rate_limit)
    /\ t_pc' = [t_pc EXCEPT ![t] = "l22"]
    /\ UNCHANGED <<config, registry, crypto, last_update, clock, acquired, call, t_now, t_elapsed, t_val, t_ret>>

\* line 22: self.last_update = now
WriteLastUpdate(t) ==
    /\ t_pc[t] = "l22"
    /\ last_update' = t_now[t]
    /\ t_pc' = [t_pc EXCEPT ![t] = "l24"]
    /\ UNCHANGED <<config, registry, crypto, tokens, clock, acquired, call, t_now, t_elapsed, t_val, t_ret>>

\* lines 24 and 27: if self.tokens >= 1 ... else return False
TestTokens(t) ==
    /\ t_pc[t] = "l24"
    /\ IF HasToken(tokens)
       THEN t_pc' = [t_pc EXCEPT ![t] = "l25r"] /\ t_ret' = t_ret
       ELSE t_pc' = [t_pc EXCEPT ![t] = "done"] /\ t_ret' = [t_ret EXCEPT ![t] = FALSE]
    /\ UNCHANGED <<config, registry, crypto, bucket, clock, acquired, call, t_now, t_elapsed, t_val>>

\* line 25, self.tokens -= 1: the read
ReadForDecrement(t) ==
    /\ t_pc[t] = "l25r"
    /\ t_val' = [t_val EXCEPT ![t] = tokens]
    /\ t_pc' = [t_pc EXCEPT ![t] = "l25w"]
    /\ UNCHANGED <<config, registry, crypto, bucket, clock, acquired, call, t_now, t_elapsed, t_ret>>

\* line 25, the write, and line 26: return True
WriteDecrement(t) ==
    /\ t_pc[t] = "l25w"
    /\ tokens' = t_val[t] - OneToken
    /\ t_ret' = [t_ret EXCEPT ![t] = TRUE]
    /\ t_pc' = [t_pc EXCEPT ![t] = "done"]
    /\ UNCHANGED <<config, registry, crypto, last_update, clock, acquired, call, t_now, t_elapsed, t_val>>

ThreadNext ==
    \/ Tick
    \/ \E t \in Threads : ReadClock(t)
    \/ \E t \in Threads : ReadLastUpdate(t)
    \/ \E t \in Threads : ReadTokens(t)
    \/ \E t \in Threads : WriteRefill(t)
    \/ \E t \in Threads : WriteLastUpdate(t)
    \/ \E t \in Threads : TestTokens(t)
    \/ \E t \in Threads : ReadForDecrement(t)
    \/ \E t \in Threads : WriteDecrement(t)

ThreadSpec == ThreadInit /\ [][ThreadNext]_vars

\* the two calls run one after the other on the fresh bucket, each with the
\* clock reading it took, the earlier reading first
SerialOutcome(first, second) ==
    LET r1 == acquire(max_tokens(rate_limit), 0, t_now[first], rate_limit)
        r2 == acquire(r1.tokens, r1.last_update, t_now[second], rate_limit)
    IN  /\ t_now[first] <= t_now[second]
        /\ t_ret[first] = r1.ok
        /\ t_ret[second] = r2.ok
        /\ tokens = r2.tokens
        /\ last_update = r2.last_update

\* C4: under every interleaving of two acquire() calls the results and the
\* final bucket are those of some serial order, no more calls are admitted
\* than tokens were available, and tokens never goes negative.
C4_Serializable ==
    /\ tokens >= 0
    /\ (\A t \in Threads : t_pc[t] = "done") =>
          /\ SerialOutcome(1, 2) \/ SerialOutcome(2, 1)
          /\ Cardinality({t \in Threads : t_ret[t]}) * OneToken
                <= max_tokens(rate_limit) + clock * tokens_per_second(rate_limit)

\* --------------------------------------------- admissions per minute
\* admitted calls with lo <= time <= hi
AdmittedIn(lo, hi) ==
    Cardinality({i \in DOMAIN acquired : acquired[i].ok /\ lo <= acquired[i].at /\ acquired[i].at <= hi})

\* C5 as stated: no window of 60 seconds, [s, s + 60), holds more than R
\* admitted calls.
C5_AtMostRPerWindow ==
    \A s \in 0..MaxTime : AdmittedIn(s, s + TicksPerMinute - 1) <= rate_limit

\* C5 amended: no window of 60 seconds, [s, s + 60], holds more than 2R
\* admitted calls: the R of a full bucket and the R refilled meanwhile.
C5_AtMostTwiceRPerWindow ==
    \A s \in 0..MaxTime : AdmittedIn(s, s + TicksPerMinute) <= 2 * rate_limit

\* a burst on the full bucket followed by calls paced at the refill rate
\* fills a window with 2R admissions
C5_Witness ==
    \E s \in 0..MaxTime : AdmittedIn(s, s + TicksPerMinute) = 2 * rate_limit

\* ------------------------------------------------- reading the current call
Done == pc = "idle" /\ calls > 0
Count(op) == Cardinality({i \in DOMAIN trace : trace[i].op = op})
Passed(op, out) == \E i \in DOMAIN trace : trace[i].op = op /\ trace[i].out = out
HandlerRuns == Count("func")
\* the lines at which the wrapper itself rejects a call before the handler
RejectLines == {54, 61, 65, 68, 71, 83}
\* outcomes of a consultation that let the call go on
Positive == {"True", "Bearer ", "u1", "ok"}

\* C1: every call made with a request emits exactly one access-log record,
\* whatever the exit path; a call without a bearer token on an auth-required
\* endpoint leaves one record with success = false and status 401.
C1_OneLogRecordPerCall ==
    (Done /\ request.present) =>
        /\ Len(log) = 1
        /\ (result.raised_at = 61 =>
                log[1].success = FALSE /\ log[1].status_code = 401)

\* C2: the handler runs at most once per call, and only after the limiter
\* admitted the call, every step of the credential gate passed (when
\* auth_required) and the request schema validated (when declared); a call
\* the wrapper rejects with 429, 401, 403 or 422 never ran the handler.
C2_HandlerOnlyAfterGates ==
    /\ HandlerRuns <= 1
    /\ (pc \in {"func", "log_ok", "except_api", "except_exc"} \/ HandlerRuns = 1) =>
          /\ Passed("acquire", "True")
          /\ \A i \in DOMAIN trace :
                trace[i].op \notin {"func", "log_request"} => trace[i].out \in Positive
          /\ auth_required =>
                /\ Passed("headers.get", "Bearer ")
                /\ user \in Users /\ user.active
                /\ Passed("validate_jwt", user.id)
                /\ Passed("require_mfa", "True")
                /\ (required_roles # {} => required_roles \cap user.roles # {})
          /\ request_schema => Passed(PayloadSource(request), "ok")
    /\ (Done /\ result.kind = "APIError" /\ result.raised_at \in RejectLines) =>
          /\ HandlerRuns = 0
          /\ result.status_code \in {429, 401, 403, 422}

\* the handler ran once on an endpoint that demands auth, the admin role
\* and a request schema
C2_Witness ==
    /\ Done /\ HandlerRuns = 1
    /\ auth_required /\ required_roles = {"admin"} /\ request_schema
    /\ result.kind = "return"

\* C6: on a fresh bucket of R requests per minute, when R+1 calls arrive
\* within less than 60/R seconds, the first R are admitted and the (R+1)-th
\* is rejected and leaves the wrapper as status 429.
RapidCalls ==
    /\ Len(acquired) = rate_limit + 1
    /\ (acquired[rate_limit + 1].at - acquired[1].at) * rate_limit < TicksPerMinute
C6_BurstThenReject ==
    RapidCalls =>
        /\ \A i \in 1..rate_limit : acquired[i].ok
        /\ ~acquired[rate_limit + 1].ok
        /\ Passed("acquire", "False") =>
              /\ pc = "idle"
              /\ result.kind = "APIError" /\ result.status_code = 429
              /\ result.raised_at = 54

\* R+1 calls spread over a positive span shorter than 60/R seconds
C6_Witness ==
    /\ RapidCalls
    /\ acquired[rate_limit + 1].at > acquired[1].at
    /\ Passed("acquire", "False")
    /\ result.status_code = 429

\* C7: when the handler raises an error that is not an APIError, the caller
\* gets status 500 with detail "Internal server error", code "ERR_500" and
\* a generated id, the original text is absent from the caller-visible error
\* and present in the log record of the call.
C7_GenericInternalError ==
    (Done /\ Passed("func", "Exception")) =>
        /\ result.kind = "APIError"
        /\ to_dict(result).status = 500
        /\ to_dict(result).detail = "Internal server error"
        /\ to_dict(result).code = "ERR_500"
        /\ to_dict(result).id # 0
        /\ to_dict(result).detail # "boom" /\ to_dict(result).code # "boom"
        /\ Len(log) = 1 /\ log[1].error = "boom"

\* C8: a call without a request context fails at once with a fixed
\* status-500 error: the bucket is untouched, no capability is consulted and
\* the handler does not run.
C8_NoContextFailsFirst ==
    /\ []((calls > 0 /\ ~request.present) =>
            /\ pc = "idle"
            /\ trace = <<>>
            /\ result.kind = "APIError" /\ result.status_code = 500
            /\ result.detail = "Request context missing")
    /\ [][(calls' = calls + 1 /\ ~request'.present) =>
            UNCHANGED <<tokens, last_update, acquired>>]_vars

\* a context-free call made on a bucket that earlier calls have drawn on
C8_Witness ==
    /\ Done /\ ~request.present
    /\ result.status_code = 500
    /\ Len(acquired) > 0

\* C9: a failing call always surfaces an APIError; an exception raised by
\* credential validation, second-factor verification or payload access is
\* caught at the boundary, logged and surfaced as an APIError.
CollaboratorRaised ==
    \E i \in DOMAIN trace :
        trace[i].op \in {"validate_jwt", "require_mfa", "json", "query_params"}
        /\ trace[i].out = "raise"
C9_OnlyStructuredErrors ==
    (Done /\ request.present) =>
        /\ result.kind \in {"return", "APIError"}
        /\ CollaboratorRaised => Len(log) = 1 /\ result.kind = "APIError"

\* C10: when log_request raises, a call whose handler succeeded still returns
\* the handler's response, a failing call still surfaces its own error, and
\* log_request is not called again for the same call.
HandlerReturned(v) == Passed("func", v) /\ ~(response_schema /\ v = "other")
C10_SinkFailureHarmless ==
    (Done /\ Passed("log_request", "raise")) =>
        /\ Count("log_request") = 1
        /\ \A v \in {"response", "other"} : HandlerReturned(v) => result = Return(v)
        /\ Passed("func", "APIError") => result.kind = "APIError" /\ result.raised_at = 87
        /\ Passed("func", "Exception") =>
              result.kind = "APIError" /\ result.status_code = 500

\* ------------------------------------------------- the credential gate
\* C11: the gate fails at the first failing step of Extract, Resolve, Second
\* factor, Authorize: a missing or non-Bearer header gives 401 and
\* validate_jwt is not consulted; no principal or an inactive one gives 401
\* and require_mfa is not consulted; a failed second factor gives 403 "MFA
\* required" whatever the roles; and the role check gives 403 exactly when
\* required roles are declared and share nothing with the principal's roles.
C11_FirstFailingStep ==
    /\ (\E i \in DOMAIN trace : trace[i].op = "headers.get" /\ trace[i].out # "Bearer ") =>
          /\ Done /\ result.kind = "APIError"
          /\ result.status_code = 401 /\ result.raised_at = 61
          /\ Count("validate_jwt") = 0 /\ Count("require_mfa") = 0
    /\ (Passed("validate_jwt", "None") \/ (Passed("validate_jwt", "u1") /\ ~user.active)) =>
          /\ Done /\ result.kind = "APIError"
          /\ result.status_code = 401 /\ result.raised_at = 65
          /\ Count("require_mfa") = 0
    /\ Passed("require_mfa", "False") =>
          /\ Done /\ result.kind = "APIError"
          /\ result.status_code = 403 /\ result.detail = "MFA required"
    /\ (Passed("require_mfa", "True") /\ pc # "roles") =>
          ((Done /\ result.status_code = 403 /\ result.detail = "Insufficient permissions")
             <=> (required_roles # {} /\ required_roles \cap user.roles = {}))

\* a principal without the required role who also fails the second factor
C11_Witness ==
    /\ Done /\ Passed("require_mfa", "False")
    /\ required_roles = {"admin"} /\ user.roles = {"user"}
    /\ result.detail = "MFA required"

\* C12 as stated: require_mfa is consulted only on an endpoint that asks for
\* a second factor, so on an auth-required endpoint that does not, nobody is
\* turned away with 403 for failing it.
C12_MfaOnlyWhenRequired ==
    ~mfa_required =>
        /\ Count("require_mfa") = 0
        /\ ~(Done /\ result.raised_at = 68)

\* C12 amended: require_mfa is consulted on every auth-required endpoint,
\* once, after an active principal was resolved, and on no other endpoint; a
\* principal who fails it is turned away with 403.
C12_MfaOnEveryAuthEndpoint ==
    /\ Count("require_mfa") <= 1
    /\ Count("require_mfa") = 1 => auth_required /\ user \in Users /\ user.active
    /\ (auth_required /\ user \in Users /\ user.active /\ pc # "mfa") =>
          Count("require_mfa") = 1
    /\ Passed("require_mfa", "False") =>
          Done /\ result.status_code = 403 /\ result.raised_at = 68

\* an endpoint that declares nothing but auth_required turns away an active
\* principal who fails the second factor
C12_Witness ==
    /\ Done /\ auth_required /\ required_roles = {}
    /\ user \in Users /\ user.active
    /\ Passed("require_mfa", "False")
    /\ result.status_code = 403

\* C13: with auth_required = false the gate is skipped: the header,
\* validate_jwt and require_mfa are never consulted, no principal exists, no
\* gate error ends the call and every log record has no user id.
C13_GateSkipped ==
    ~auth_required =>
        /\ Count("headers.get") = 0
        /\ Count("validate_jwt") = 0
        /\ Count("require_mfa") = 0
        /\ user = NoUser
        /\ result.raised_at \notin {61, 65, 68, 71}
        /\ \A i \in DOMAIN log : log[i].user_id = "None"

\* a call on an open endpoint that ran the handler and was logged
C13_Witness ==
    /\ Done /\ ~auth_required
    /\ HandlerRuns = 1
    /\ Len(log) = 1 /\ log[1].user_id = "None"

\* ------------------------------------------------- refill bookkeeping
AdmittedCount == Cardinality({i \in DOMAIN acquired : acquired[i].ok})
\* what refill has put into the bucket since it was created, full, at time 0
RefillAdded == tokens - rate_limit * TicksPerMinute + AdmittedCount * TicksPerMinute

\* C16: acquire() stamps last_update with the clock on every call, admitted
\* or not; over a sequential run refill adds at most the refill rate times
\* the time since the bucket was created; and a rejected acquire changes
\* tokens by that refill only.
C16_NoDoubleCounting ==
    /\ [](/\ Len(acquired) > 0 => last_update = acquired[Len(acquired)].at
          /\ RefillAdded >= 0
          /\ RefillAdded <= rate_limit * clock)
    /\ [][Len(acquired') = Len(acquired) + 1 =>
            /\ last_update' = clock
            /\ ~acquired'[Len(acquired')].ok =>
                  /\ tokens' >= tokens
                  /\ tokens' - tokens <= rate_limit * (clock - last_update)]_vars

\* a rejected call that came after time had passed and left its refill in
\* the bucket
C16_Witness ==
    /\ Len(acquired) >= 2
    /\ ~acquired[Len(acquired)].ok
    /\ acquired[Len(acquired)].at > acquired[Len(acquired) - 1].at
    /\ last_update = clock
    /\ tokens > 0

\* C17: an admitted call takes exactly one token and nothing later in the
\* call gives it back; tokens only ever changes inside acquire(), and only
\* elapsed time makes it grow.
C17_OneTokenPerAdmission ==
    /\ [](Passed("acquire", "True") => tokens <= (rate_limit - 1) * TicksPerMinute)
    /\ [][/\ (tokens' # tokens \/ last_update' # last_update) => pc = "limit"
          /\ tokens' > tokens => clock > last_update
          /\ (pc = "limit" /\ pc' # "limit") =>
                LET filled == Min(tokens + rate_limit * (clock - last_update),
                                  rate_limit * TicksPerMinute)
                IN  tokens' = IF acquired'[Len(acquired')].ok
                              THEN filled - TicksPerMinute
                              ELSE filled]_vars

\* a call that was admitted and then turned away by the gate or by request
\* validation: its token is gone
C17_Witness ==
    /\ Done /\ Passed("acquire", "True")
    /\ result.raised_at \in {61, 65, 68, 71, 83}
    /\ tokens = (rate_limit - 1) * TicksPerMinute

\* ------------------------------------------------- the order of the stages
PayloadReads == Count("json") + Count("query_params")

\* C18: the caller gets the error of the earliest failing stage of rate
\* limit, credential gate, request validation: an exhausted bucket gives 429
\* with neither header nor validate_jwt consulted, and a gate failure gives
\* 401 or 403 without the payload being looked at.
C18_EarliestStageWins ==
    /\ Passed("acquire", "False") =>
          /\ Done /\ result.kind = "APIError" /\ result.status_code = 429
          /\ Len(trace) = 1
    /\ (Done /\ result.raised_at \in {61, 65, 68, 71}) =>
          /\ result.status_code \in {401, 403}
          /\ Passed("acquire", "True")
          /\ PayloadReads = 0
    /\ PayloadReads > 0 =>
          /\ PayloadReads = 1
          /\ Passed("acquire", "True")
          /\ auth_required =>
                /\ Passed("headers.get", "Bearer ")
                /\ user \in Users /\ user.active
                /\ Passed("require_mfa", "True")
                /\ ~(required_roles # {} /\ required_roles \cap user.roles = {})
    /\ (Done /\ result.raised_at = 83) => result.status_code = 422

\* an unauthenticated call on an endpoint that also declares a request
\* schema ends with 401, the payload unread
C18_Witness ==
    /\ Done /\ auth_required /\ request_schema
    /\ result.status_code = 401
    /\ PayloadReads = 0

\* C19: when a response schema is declared and the handler returns a value
\* that is not an instance of it, the call ends with a status-500 APIError
\* and is logged once, as a failure with status 500.
C19_ResponseMismatchIs500 ==
    (Done /\ response_schema /\ Passed("func", "other")) =>
        /\ result.kind = "APIError"
        /\ result.status_code = 500
        /\ Len(log) = 1
        /\ log[1].success = FALSE /\ log[1].status_code = 500

\* --------------------------------------- several registered endpoints
\* Each registration picks its own rate_limit; decorator() builds its
\* RateLimiter when the function is decorated, here at time 0.
RegistryInit ==
    /\ rate_limit = 1
    /\ auth_required = FALSE
    /\ required_roles = {}
    /\ request_schema = FALSE
    /\ response_schema = FALSE
    /\ clock = 0
    /\ tokens = max_tokens(rate_limit)
    /\ last_update = 0
    /\ acquired = <<>>
    /\ pc = "idle"
    /\ calls = 0
    /\ request = NoRequest
    /\ user = NoUser
    /\ pending = NoResult
    /\ result = NoResult
    /\ trace = <<>>
    /\ log = <<>>
    /\ t_pc = [t \in Threads |-> "start"]
    /\ t_now = [t \in Threads |-> 0]
    /\ t_elapsed = [t \in Threads |-> 0]
    /\ t_val = [t \in Threads |-> 0]
    /\ t_ret = [t \in Threads |-> FALSE]
    /\ e_rate \in [Endpoints -> 1..MaxRate]
    /\ e_tokens = [e \in Endpoints |-> max_tokens(e_rate[e])]
    /\ e_last_update = [e \in Endpoints |-> 0]
    /\ e_acquired = [e \in Endpoints |-> <<>>]
    /\ c_pc = "idle"
    /\ c_data = [type |-> "bytes", data |-> <<>>]
    /\ c_key = <<>>
    /\ c_envelope = [type |-> "str", data |-> <<>>]
    /\ c_tampered = "intact"
    /\ c_dkey = <<>>
    /\ c_result = [kind |-> "none"]

\* line 43: limiter = RateLimiter(rate_limit), a local of decorator() that
\* the wrapper of this registration closes over
limiter_shared(e) == 1
limiter_of(e) == e

EndpointCalls == Len(e_acquired[1]) + Len(e_acquired[2])

\* lines 46-54 of the wrapper of registration e, called with a request: the
\* limiter check, which is the call's only access to a bucket
CallEndpoint(e) ==
    /\ EndpointCalls < MaxAcquires
    /\ LET l == limiter_of(e)
           r == acquire(e_tokens[l], e_last_update[l], clock, e_rate[l])
       IN  /\ e_tokens' = [e_tokens EXCEPT ![l] = r.tokens]
           /\ e_last_update' = [e_last_update EXCEPT ![l] = r.last_update]
           /\ e_acquired' = [e_acquired EXCEPT ![e] = Append(@, [at |-> clock, ok |-> r.ok])]
    /\ UNCHANGED <<config, crypto, e_rate, bucket, clock, acquired, call, threads>>

RegistryNext ==
    \/ Tick
    \/ \E e \in Endpoints : CallEndpoint(e)

RegistrySpec == RegistryInit /\ [][RegistryNext]_vars

\* C20: a call to one endpoint leaves the tokens and last_update of every
\* other endpoint's bucket as they were, so an endpoint's first rate_limit
\* calls are admitted however much the others have been called, and a bucket
\* never called is still full.
C20_BucketsIndependent ==
    /\ [](\A e \in Endpoints :
            /\ \A i \in 1..Min(e_rate[e], Len(e_acquired[e])) : e_acquired[e][i].ok
            /\ Len(e_acquired[e]) = 0 =>
                  e_tokens[e] = e_rate[e] * TicksPerMinute /\ e_last_update[e] = 0)
    /\ [][\A e \in Endpoints :
            Len(e_acquired'[e]) = Len(e_acquired[e]) + 1 =>
                \A o \in Endpoints \ {e} :
                    e_tokens'[o] = e_tokens[o] /\ e_last_update'[o] = e_last_update[o]]_vars

\* one endpoint is exhausted and another is admitted at that very moment
C20_Witness ==
    \E e \in Endpoints : \E o \in Endpoints \ {e} :
        /\ Len(e_acquired[e]) > 0 /\ Len(e_acquired[o]) > 0
        /\ ~e_acquired[e][Len(e_acquired[e])].ok
        /\ e_acquired[o][Len(e_acquired[o])].ok
        /\ e_acquired[o][Len(e_acquired[o])].at = e_acquired[e][Len(e_acquired[e])].at
        /\ e_acquired[o][Len(e_acquired[o])].at = clock

\* ------------------------------------------------- quantum_encryption.py
\* Python values: bytes hold integers 0..255, str holds code points
Bytes(seq) == [type |-> "bytes", data |-> seq]
Text(seq) == [type |-> "str", data |-> seq]

NonceLen == 12
TagLen == 16
HeaderLen == 28
KeyLen == 32

\* s[lo:hi]
Slice(s, lo, hi) == SubSeq(s, lo + 1, Min(hi, Len(s)))

RECURSIVE Sum(_)
Sum(s) == IF s = <<>> THEN 0 ELSE s[1] + Sum(Tail(s))

\* bytes.decode('utf-8'): the strict decoder
Utf8Len(b) ==
    IF b < 128 THEN 1
    ELSE IF b >= 194 /\ b <= 223 THEN 2
    ELSE IF b >= 224 /\ b <= 239 THEN 3
    ELSE IF b >= 240 /\ b <= 244 THEN 4
    ELSE 0
Utf8SecondOk(lead, b) ==
    CASE lead = 224 -> b >= 160 /\ b <= 191
      [] lead = 237 -> b >= 128 /\ b <= 159
      [] lead = 240 -> b >= 144 /\ b <= 191
      [] lead = 244 -> b >= 128 /\ b <= 143
      [] OTHER -> b >= 128 /\ b <= 191
Utf8Point(b, n) ==
    CASE n = 1 -> b[1]
      [] n = 2 -> (b[1] - 192) * 64 + (b[2] - 128)
      [] n = 3 -> (b[1] - 224) * 4096 + (b[2] - 128) * 64 + (b[3] - 128)
      [] n = 4 -> (b[1] - 240) * 262144 + (b[2] - 128) * 4096 + (b[3] - 128) * 64 + (b[4] - 128)
RECURSIVE utf8_decode(_)
utf8_decode(b) ==
    IF b = <<>> THEN [ok |-> TRUE, data |-> <<>>]
    ELSE LET n == Utf8Len(b[1])
         IN  IF \/ n = 0
                \/ Len(b) < n
                \/ n >= 2 /\ ~Utf8SecondOk(b[1], b[2])
                \/ \E i \in 3..n : b[i] < 128 \/ b[i] > 191
             THEN [ok |-> FALSE, data |-> <<>>]
             ELSE LET rest == utf8_decode(SubSeq(b, n + 1, Len(b)))
                  IN  [ok |-> rest.ok, data |-> <<Utf8Point(b, n)>> \o rest.data]

\* str.encode('utf-8'), for strings without surrogates
RECURSIVE utf8_encode(_)
utf8_encode(t) ==
    IF t = <<>> THEN <<>>
    ELSE LET c == t[1]
             head == IF c < 128 THEN <<c>>
                     ELSE IF c < 2048 THEN <<192 + (c \div 64), 128 + (c % 64)>>
                     ELSE IF c < 65536
                          THEN <<224 + (c \div 4096), 128 + ((c \div 64) % 64), 128 + (c % 64)>>
                          ELSE <<240 + (c \div 262144), 128 + ((c \div 4096) % 64),
                                 128 + ((c \div 64) % 64), 128 + (c % 64)>>
         IN  head \o utf8_encode(Tail(t))

\* the base64 alphabet A-Z a-z 0-9 + / as ASCII codes; 61 is '='
B64Char(v) ==
    IF v < 26 THEN 65 + v
    ELSE IF v < 52 THEN 97 + (v - 26)
    ELSE IF v < 62 THEN 48 + (v - 52)
    ELSE IF v = 62 THEN 43 ELSE 47
B64Val(c) ==
    IF c >= 65 /\ c <= 90 THEN c - 65
    ELSE IF c >= 97 /\ c <= 122 THEN c - 97 + 26
    ELSE IF c >= 48 /\ c <= 57 THEN c - 48 + 52
    ELSE IF c = 43 THEN 62 ELSE 63

RECURSIVE b64encode(_)
b64encode(b) ==
    IF b = <<>> THEN <<>>
    ELSE IF Len(b) = 1
    THEN <<B64Char(b[1] \div 4), B64Char((b[1] % 4) * 16), 61, 61>>
    ELSE IF Len(b) = 2
    THEN <<B64Char(b[1] \div 4), B64Char((b[1] % 4) * 16 + (b[2] \div 16)),
           B64Char((b[2] % 16) * 4), 61>>
    ELSE <<B64Char(b[1] \div 4), B64Char((b[1] % 4) * 16 + (b[2] \div 16)),
           B64Char((b[2] % 16) * 4 + (b[3] \div 64)), B64Char(b[3] % 64)>>
         \o b64encode(SubSeq(b, 4, Len(b)))

\* base64.b64decode of a text over the alphabet: groups of four characters,
\* a text that is not a whole number of groups raises binascii.Error
RECURSIVE B64Groups(_)
B64Groups(c) ==
    IF c = <<>> THEN <<>>
    ELSE LET v == [i \in 1..4 |-> B64Val(c[i])]
             head == IF c[3] = 61 THEN <<v[1] * 4 + (v[2] \div 16)>>
                     ELSE IF c[4] = 61
                          THEN <<v[1] * 4 + (v[2] \div 16), (v[2] % 16) * 16 + (v[3] \div 4)>>
                          ELSE <<v[1] * 4 + (v[2] \div 16), (v[2] % 16) * 16 + (v[3] \div 4),
                                 (v[3] % 4) * 64 + v[4]>>
         IN  head \o B64Groups(SubSeq(c, 5, Len(c)))
b64decode(c) ==
    IF Len(c) % 4 # 0 THEN [ok |-> FALSE, data |-> <<>>]
    ELSE [ok |-> TRUE, data |-> B64Groups(c)]

\* AES-256-GCM of the cryptography package, reduced to what the functions
\* rely on: a keystream fixed by key and nonce, added where AES-CTR xors, and
\* a 16-byte tag fixed by key, nonce and ciphertext
Keystream(key, nonce, i) ==
    (key[1 + (i % KeyLen)] * 7 + nonce[1 + (i % NonceLen)] * 13 + i) % 256
GcmEncrypt(key, nonce, pt) ==
    [i \in 1..Len(pt) |-> (pt[i] + Keystream(key, nonce, i)) % 256]
GcmDecrypt(key, nonce, ct) ==
    [i \in 1..Len(ct) |-> (ct[i] + 256 - Keystream(key, nonce, i)) % 256]
GcmTag(key, nonce, ct) ==
    [j \in 1..TagLen |->
        (key[j] * 3 + nonce[1 + (j % NonceLen)] + Sum(ct) * 5 + Len(ct) + j) % 256]

\* modes.GCM(initialization_vector, tag): the constructor's own checks, the
\* message of the ValueError it raises or "" when it accepts
GCM(nonce, tag) ==
    IF Len(nonce) < 8 \/ Len(nonce) > 128
    THEN "initialization_vector must be between 8 and 128 bytes (64 and 1024 bits)."
    ELSE IF Len(tag) < TagLen
    THEN "Authentication tag must be 16 bytes or longer."
    ELSE ""

Returned(v) == [kind |-> "return", value |-> v]
Raised(type, msg, line) ==
    [kind |-> "raise", type |-> type, message |-> msg, raised_at |-> line]

\* secrets.token_bytes(32)
generate_ephemeral_key == {[i \in 1..KeyLen |-> 17], [i \in 1..KeyLen |-> 42]}
\* os.urandom(12)
urandom == {[i \in 1..NonceLen |-> 0], [i \in 1..NonceLen |-> 7]}

\* lines 17-34
quantum_encrypt(data, key, nonce) ==
    LET bytes == IF data.type = "str" THEN utf8_encode(data.data) ELSE data.data
        ciphertext == GcmEncrypt(key, nonce, bytes)
        tag == GcmTag(key, nonce, ciphertext)
        encrypted_payload == nonce \o tag \o ciphertext
    IN  Text(utf8_decode(b64encode(encrypted_payload)).data)

\* line 55
DecryptionFailed ==
    Raised("ValueError", "Decryption failed. Authentication token or key may be invalid.", 55)

\* lines 36-56
quantum_decrypt(encrypted_data, key) ==
    LET decoded == b64decode(encrypted_data.data)
        encrypted_payload == decoded.data
        nonce == Slice(encrypted_payload, 0, NonceLen)
        tag == Slice(encrypted_payload, NonceLen, HeaderLen)
        ciphertext == Slice(encrypted_payload, HeaderLen, Len(encrypted_payload))
        plaintext == utf8_decode(GcmDecrypt(key, nonce, ciphertext))
    IN  IF ~decoded.ok THEN Raised("binascii.Error", "Incorrect padding", 43)
        ELSE IF GCM(nonce, tag) # "" THEN Raised("ValueError", GCM(nonce, tag), 50)
        ELSE IF tag # GcmTag(key, nonce, ciphertext) THEN DecryptionFailed
        ELSE IF ~plaintext.ok
        THEN Raised("UnicodeDecodeError", "'utf-8' codec can't decode", 56)
        ELSE Returned(Text(plaintext.data))

SeqsUpTo(S, n) == UNION {[1..k -> S] : k \in 0..n}
\* payloads: bytes over 'a', the two bytes of U+00E9 and the stray byte 0xFF,
\* and strings over 'a' and U+00E9
Payloads ==
    {Bytes(b) : b \in SeqsUpTo({97, 195, 169, 255}, MaxPayload)}
        \cup {Text(t) : t \in SeqsUpTo({97, 233}, MaxPayload)}
\* where a byte of the envelope is altered: in the nonce, the tag, the ciphertext
FlipAt == {1, NonceLen + 1, HeaderLen + 1}
\* lengths an envelope is cut down to
TruncLens == {0, 7, 8, HeaderLen - 1}

CryptoInit ==
    /\ Init
    /\ rate_limit = 1
    /\ auth_required = FALSE
    /\ required_roles = {}
    /\ request_schema = FALSE
    /\ response_schema = FALSE

Encrypt ==
    /\ c_pc = "idle"
    /\ \E data \in Payloads, key \in generate_ephemeral_key, nonce \in urandom :
        /\ c_data' = data
        /\ c_key' = key
        /\ c_envelope' = quantum_encrypt(data, key, nonce)
    /\ c_pc' = "encrypted"
    /\ UNCHANGED <<config, registry, bucket, clock, acquired, call, threads,
                   c_tampered, c_dkey, c_result>>

\* the envelope is altered between the two calls: one byte changed
Flip(i) ==
    /\ c_pc = "encrypted"
    /\ c_tampered = "intact"
    /\ LET b == b64decode(c_envelope.data).data
       IN  /\ i <= Len(b)
           /\ c_envelope' = Text(b64encode([b EXCEPT ![i] = (@ + 1) % 256]))
    /\ c_tampered' = IF i <= NonceLen THEN "nonce"
                     ELSE IF i <= HeaderLen THEN "tag" ELSE "ciphertext"
    /\ UNCHANGED <<config, registry, bucket, clock, acquired, call, threads,
                   c_pc, c_data, c_key, c_dkey, c_result>>

\* the envelope is cut to n bytes, fewer than its header
Truncate(n) ==
    /\ c_pc = "encrypted"
    /\ c_tampered = "intact"
    /\ c_envelope' = Text(b64encode(Slice(b64decode(c_envelope.data).data, 0, n)))
    /\ c_tampered' = "short"
    /\ UNCHANGED <<config, registry, bucket, clock, acquired, call, threads,
                   c_pc, c_data, c_key, c_dkey, c_result>>

\* the text loses its last character
Chop ==
    /\ c_pc = "encrypted"
    /\ c_tampered = "intact"
    /\ c_envelope' = Text(Slice(c_envelope.data, 0, Len(c_envelope.data) - 1))
    /\ c_tampered' = "malformed"
    /\ UNCHANGED <<config, registry, bucket, clock, acquired, call, threads,
                   c_pc, c_data, c_key, c_dkey, c_result>>

Decrypt ==
    /\ c_pc = "encrypted"
    /\ \E key \in generate_ephemeral_key :
        /\ c_dkey' = key
        /\ c_result' = quantum_decrypt(c_envelope, key)
    /\ c_pc' = "done"
    /\ UNCHANGED <<config, registry, bucket, clock, acquired, call, threads,
                   c_data, c_key, c_envelope, c_tampered>>

CryptoNext ==
    \/ Encrypt
    \/ \E i \in FlipAt : Flip(i)
    \/ \E n \in TruncLens : Truncate(n)
    \/ Chop
    \/ Decrypt

CryptoSpec == CryptoInit /\ [][CryptoNext]_vars

\* C14: when an intact envelope of a bytes payload is decrypted with the key
\* it was encrypted with, quantum_decrypt returns a value equal to the payload.
C14_RoundTrip ==
    (c_pc = "done" /\ c_data.type = "bytes" /\ c_tampered = "intact" /\ c_dkey = c_key)
        => c_result = Returned(c_data)

\* C15: decrypting with a wrong key, an envelope whose tag does not verify, or
\* an envelope shorter than 28 bytes raises one and the same error, that of
\* line 55, whatever the cause.
C15_UniformFailure ==
    (/\ c_pc = "done"
     /\ \/ c_dkey # c_key
        \/ c_tampered \in {"nonce", "tag", "ciphertext"}
        \/ c_tampered = "short")
        => /\ c_result.kind = "raise"
           /\ c_result.type = DecryptionFailed.type
           /\ c_result.message = DecryptionFailed.message
====
